---- MODULE Spec2Model ----
(***************************************************************************)
(* State-machine model of the persistence layer of cst1510-auth:           *)
(*   auth_db.py     credential store (users table, bcrypt hashes)          *)
(*   db_manager.py  DatabaseManager.create_tables (first schema)           *)
(*   models.py      ITTicket / SecurityIncident / DatasetMetadata stores   *)
(*   load_data.py   CSV loaders                                            *)
(*   Home.py        registration form, login, session state                *)
(*   pages/         the guards of the four pages                           *)
(* Spec exercises one component per behaviour; SpecLoadData the import     *)
(* script; SpecConcurrentUpdate and SpecConcurrentRegister two sessions    *)
(* whose calls interleave statement by statement; SpecSession one browser  *)
(* session moving between Home.py and the pages.                           *)
(* A table is a record [exists, cols, rows, seq]: rows is a set of         *)
(* functions column -> value, seq the AUTOINCREMENT high-water mark.       *)
(* Python None and SQL NULL are the value NULL; every other text value is  *)
(* a string, ids and numeric columns are integers.                         *)
(***************************************************************************)
EXTENDS Integers, Sequences, FiniteSets, TLC

\* ------------------------------------------------------------------ bounds
\* highest id a table hands out in a behaviour (caps the AUTOINCREMENT counter)
MaxId == 2
\* highest value of the wall clock, in whole seconds
MaxClock == 1

\* --------------------------------------------------------------- constants
\* bcrypt reads at most this many bytes of a password
BcryptMaxBytes == 72

VARIABLES
    component,    \* the component whose operations the behaviour exercises
    bcryptBuild,  \* which bcrypt release is installed: "truncate" or "strict"
    open,         \* the operations whose connection is open after they completed
    procs,        \* per browser session: the call it is in the middle of, if any
    session,      \* st.session_state of one browser session
    now,          \* wall clock, whole seconds (datetime.utcnow, timespec="seconds")
    users,        \* table users
    tickets,      \* table it_tickets
    incidents,    \* table cyber_incidents
    datasets,     \* table datasets_metadata
    plain,        \* history: the <<username, password>> pairs register_user stored
    ret           \* the last call: its name, arguments, result or exception

vars == <<component, bcryptBuild, open, procs, session, now, users, tickets, incidents, datasets, plain, ret>>

\* ------------------------------------------------------------------ values
NULL == "<None>"
OK == "ok"

\* Python truthiness of a text-or-None value: None and "" are falsy
Truthy(v) == v # NULL /\ v # ""

\* x or y
Or(x, y) == IF Truthy(x) THEN x ELSE y

\* dict.get / "row[col] if col in keys else default"
Get(row, col, default) == IF col \in DOMAIN row THEN row[col] ELSE default

\* datetime.utcnow().isoformat(timespec="seconds") at clock value n
Stamp(n) == "T" \o ToString(n)

\* the browser sessions that use the app at the same time
Sessions == {"s1", "s2"}

\* a session that is between two calls
Idle == [pc |-> "idle"]

\* a key that st.session_state does not hold (logged_in is otherwise "True"
\* or "False", username a text)
Unset == "<unset>"

\* st.session_state of a browser session in which no script has run yet;
\* verified is history: the username verify_user last accepted in this
\* session, NULL after a logout
NewSession == [logged_in |-> Unset, username |-> Unset, verified |-> NULL]

Absent == [exists |-> FALSE, cols |-> {}, rows |-> {}, seq |-> 0]

Ids(t) == {r["id"] : r \in t.rows}

RowOf(t, id) == CHOOSE r \in t.rows : r["id"] = id

\* SELECT COUNT(*)
Count(t) == Cardinality(t.rows)

\* a new row over the table's columns: the given values, NULL elsewhere
NewRow(t, id, given) ==
    [c \in t.cols |-> IF c = "id" THEN id
                      ELSE IF c \in DOMAIN given THEN given[c] ELSE NULL]

\* an INSERT that never advances the id counter
InsertNoCounter(t, given) ==
    [t EXCEPT !.rows = @ \cup {NewRow(t, t.seq + 1, given)}]

\* an INSERT into a table whose id is a plain rowid: one more than the
\* largest id the table holds now
InsertMaxRowid(t, given) ==
    LET id == IF t.rows = {} THEN 1
              ELSE 1 + CHOOSE m \in Ids(t) : \A i \in Ids(t) : i <= m
    IN [t EXCEPT !.rows = @ \cup {NewRow(t, id, given)}, !.seq = id]

\* INSERT of one row with an AUTOINCREMENT id
Insert(t, given) ==
    [t EXCEPT !.rows = @ \cup {NewRow(t, t.seq + 1, given)}, !.seq = @ + 1]

\* the behaviours that call the operations of component c: those of c alone
\* and those of the whole app, where the four tables are in use together
Uses(c) ==
    \/ component \in {c, "app"}
    \/ (c = "incidents" /\ component = "concurrent_update")
    \/ (c = "auth" /\ component = "session")

\* in the behaviours of the whole app, and where sessions race for one
\* incident, a table receives one row
OneRow(t) == component \in {"app", "concurrent_update", "session"} => t.seq = 0

\* ------------------------------------------------------------ db_manager.py
UsersCols == {"id", "username", "password_hash"}
DbmIncidentCols == {"id", "incident_type", "severity", "response_time_hours",
                    "status", "reported_at"}
DbmDatasetCols == {"id", "dataset_name", "owner", "size_mb", "department", "created_at"}
LegacyTicketCols == {"id", "ticket_id", "priority", "description", "status",
                     "assigned_to", "created_at", "resolution_time_hours"}

\* CREATE TABLE IF NOT EXISTS
CreateIfNotExists(t, cols) ==
    IF t.exists THEN t ELSE [exists |-> TRUE, cols |-> cols, rows |-> {}, seq |-> 0]

\* DatabaseManager.create_tables
create_tables ==
    /\ users' = CreateIfNotExists(users, UsersCols)
    /\ incidents' = CreateIfNotExists(incidents, DbmIncidentCols)
    /\ datasets' = CreateIfNotExists(datasets, DbmDatasetCols)
    /\ tickets' = CreateIfNotExists(tickets, LegacyTicketCols)
    /\ ret' = [op |-> "create_tables", exc |-> OK]
    /\ UNCHANGED <<component, bcryptBuild, open, procs, session, now, plain>>

\* ---------------------------------------------------------------- auth_db.py
Usernames == {"", "alice"}

\* passwords as byte sequences; the two long ones agree on their first
\* BcryptMaxBytes bytes and differ in the byte after them
LongA == [i \in 1..(BcryptMaxBytes + 1) |-> 1]
LongB == [i \in 1..(BcryptMaxBytes + 1) |-> IF i > BcryptMaxBytes THEN 2 ELSE 1]
Passwords == {<<1>>, <<2>>, LongA, LongB}

\* bcrypt.gensalt(): a fresh random salt per call
Salts == {101, 102}

TooLong(pw) == bcryptBuild = "strict" /\ Len(pw) > BcryptMaxBytes

\* a hashpw that hands the password back unhashed
hashpw_plaintext(pw, salt) == pw

\* bcrypt.hashpw(password, salt): salt, then a digest that is a function of
\* the salt and of the first BcryptMaxBytes bytes of the password
hashpw(pw, salt) ==
    <<salt>> \o SubSeq(pw, 1, IF Len(pw) > BcryptMaxBytes THEN BcryptMaxBytes ELSE Len(pw))

\* bcrypt.checkpw(password, hashed): re-hash with the stored salt and compare
checkpw(pw, hashed) == hashpw(pw, Head(hashed)) = hashed

UserRows(u) == {r \in users.rows : r["username"] = u}

\* the connections left by an auth_db function that opened one with
\* "with get_conn() as conn:". Connection.__exit__ commits or rolls back and
\* does not close; no function calls conn.close(). When the function raises,
\* the traceback keeps its frame and so the connection; when it returns, the
\* connection is closed at once by a reference-counting interpreter and stays
\* open until a later collection otherwise (leak)
WithGetConn(o, op, raised, leak) == IF raised \/ leak THEN o \cup {op} ELSE o

\* user_exists(username): "True" / "False" / the exception raised
user_exists(u) ==
    IF ~users.exists THEN "OperationalError"
    ELSE IF UserRows(u) # {} THEN "True" ELSE "False"

\* INSERT INTO users (username, password_hash) against
\* "username TEXT UNIQUE NOT NULL" of create_tables
InsertUser(u, hashed) ==
    IF UserRows(u) # {} THEN [t |-> users, exc |-> "IntegrityError"]
    ELSE [t |-> Insert(users, [username |-> u, password_hash |-> hashed]), exc |-> OK]

\* the body of register_user with the salt gensalt() drew: the table it
\* leaves and OK or the exception it raises
register_user_call(u, pw, salt) ==
    IF TooLong(pw) THEN [t |-> users, exc |-> "ValueError"]
    ELSE IF ~users.exists THEN [t |-> users, exc |-> "OperationalError"]
    ELSE InsertUser(u, hashpw(pw, salt))

\* register_user(username, plain_password)
register_user(u, pw, salt) ==
    /\ Uses("auth")
    /\ users.seq < MaxId
    /\ OneRow(users)
    /\ LET res == register_user_call(u, pw, salt) IN
       /\ users' = res.t
       /\ plain' = IF res.exc = OK THEN plain \cup {<<u, pw>>} ELSE plain
       /\ ret' = [op |-> "register_user", username |-> u, exc |-> res.exc]
       /\ \E leak \in BOOLEAN :
            open' = IF TooLong(pw) THEN open
                    ELSE WithGetConn(open, "register_user", res.exc # OK, leak)
    /\ UNCHANGED <<component, bcryptBuild, procs, session, now, tickets, incidents, datasets>>

\* verify_user(username, plain_password): "True" / "False" / the exception raised
verify_user(u, pw) ==
    IF ~users.exists THEN "OperationalError"
    ELSE IF UserRows(u) = {} THEN "False"
    ELSE IF TooLong(pw) THEN "ValueError"
    ELSE LET row == CHOOSE r \in UserRows(u) : TRUE IN
         IF checkpw(pw, row["password_hash"]) THEN "True" ELSE "False"

VerifyUser(u, pw) ==
    /\ component = "auth"
    /\ ret' = [op |-> "verify_user", username |-> u, exc |-> verify_user(u, pw)]
    /\ \E leak \in BOOLEAN :
         open' = WithGetConn(open, "verify_user",
                             verify_user(u, pw) \notin {"True", "False"}, leak)
    /\ UNCHANGED <<component, bcryptBuild, procs, session, now, users, tickets, incidents, datasets, plain>>

\* ------------------------------------------------------------------- Home.py
\* the "Create account" button of the register tab
RegisterForm(u, pw, confirm, salt) ==
    /\ component = "auth"
    /\ users.seq < MaxId
    /\ LET res ==
             IF u = "" \/ pw = <<>>
             THEN [t |-> users, exc |-> "Please fill in all fields."]
             ELSE IF pw # confirm
             THEN [t |-> users, exc |-> "Passwords do not match."]
             ELSE IF user_exists(u) = "OperationalError"
             THEN [t |-> users, exc |-> "OperationalError"]
             ELSE IF user_exists(u) = "True"
             THEN [t |-> users, exc |-> "Username already exists."]
             ELSE register_user_call(u, pw, salt)
       IN
       /\ users' = res.t
       /\ plain' = IF res.exc = OK THEN plain \cup {<<u, pw>>} ELSE plain
       /\ ret' = [op |-> "RegisterForm", username |-> u, exc |-> res.exc]
       /\ \E leak1 \in BOOLEAN, leak2 \in BOOLEAN :
            open' = IF u = "" \/ pw = <<>> \/ pw # confirm THEN open
                    ELSE IF user_exists(u) # "False"
                    THEN WithGetConn(open, "user_exists",
                                     user_exists(u) = "OperationalError", leak1)
                    ELSE IF TooLong(pw) THEN WithGetConn(open, "user_exists", FALSE, leak1)
                    ELSE WithGetConn(WithGetConn(open, "user_exists", FALSE, leak1),
                                     "register_user", res.exc # OK, leak2)
    /\ UNCHANGED <<component, bcryptBuild, procs, session, now, tickets, incidents, datasets>>

\* the register tab up to its call of register_user: the message or the
\* exception that ends the submission, OK when register_user is called next
RegisterFormChecks(u, pw, confirm) ==
    IF u = "" \/ pw = <<>> THEN "Please fill in all fields."
    ELSE IF pw # confirm THEN "Passwords do not match."
    ELSE IF user_exists(u) = "OperationalError" THEN "OperationalError"
    ELSE IF user_exists(u) = "True" THEN "Username already exists."
    ELSE OK

\* "Create account" in session s, up to and including user_exists
RegisterForm_check(s, u, pw, confirm) ==
    /\ component = "concurrent_register"
    /\ procs[s] = Idle
    /\ LET msg == RegisterFormChecks(u, pw, confirm) IN
       /\ procs' = [procs EXCEPT ![s] = [pc |-> IF msg = OK THEN "register" ELSE "done",
                                         username |-> u, pw |-> pw]]
       /\ ret' = IF msg = OK THEN ret
                 ELSE [op |-> "RegisterForm", username |-> u, exc |-> msg]
       /\ \E leak \in BOOLEAN :
            open' = IF u = "" \/ pw = <<>> \/ pw # confirm THEN open
                    ELSE WithGetConn(open, "user_exists", msg = "OperationalError", leak)
    /\ UNCHANGED <<component, bcryptBuild, session, now, users, tickets, incidents,
                   datasets, plain>>

\* the rest of the submission of session s: register_user and the message
RegisterForm_register(s, salt) ==
    /\ component = "concurrent_register"
    /\ procs[s].pc = "register"
    /\ LET p == procs[s]
           res == register_user_call(p.username, p.pw, salt)
       IN
       /\ users' = res.t
       /\ plain' = IF res.exc = OK THEN plain \cup {<<p.username, p.pw>>} ELSE plain
       /\ ret' = [op |-> "RegisterForm", username |-> p.username, exc |-> res.exc]
       /\ procs' = [procs EXCEPT ![s] = [p EXCEPT !.pc = "done"]]
       /\ \E leak \in BOOLEAN :
            open' = IF TooLong(p.pw) THEN open
                    ELSE WithGetConn(open, "register_user", res.exc # OK, leak)
    /\ UNCHANGED <<component, bcryptBuild, session, now, tickets, incidents, datasets>>

\* ------------------------------------------------------ models.py: ITTicket
CurrentTicketCols == {"id", "title", "priority", "status", "created_date"}

\* ALTER TABLE ... ADD COLUMN c TEXT, run only when c is missing
AddColumn(t, c) ==
    IF c \in t.cols THEN t
    ELSE [t EXCEPT !.cols = @ \cup {c},
                   !.rows = {[k \in DOMAIN r \cup {c} |-> IF k = c THEN NULL ELSE r[k]]
                                : r \in @}]

\* a backfill without its WHERE clause: every row takes the legacy value
BackfillUnguarded(t, new, old) ==
    IF old \notin t.cols THEN t
    ELSE [t EXCEPT !.rows = {[r EXCEPT ![new] = r[old]] : r \in @}]

\* UPDATE it_tickets SET new = old WHERE (new IS NULL OR new = '') AND old IS NOT NULL,
\* run only when the table has the column old
Backfill(t, new, old) ==
    IF old \notin t.cols THEN t
    ELSE [t EXCEPT !.rows = {IF (r[new] = NULL \/ r[new] = "") /\ r[old] # NULL
                             THEN [r EXCEPT ![new] = r[old]] ELSE r : r \in @}]

\* an ensure step that drops the table and creates it again
ensure_it_tickets_table_recreate(t) ==
    [exists |-> TRUE, cols |-> CurrentTicketCols, rows |-> {}, seq |-> t.seq]

\* ensure_it_tickets_table(): the table it leaves
ensure_it_tickets_table(t) ==
    Backfill(
        Backfill(
            AddColumn(AddColumn(CreateIfNotExists(t, CurrentTicketCols), "title"),
                      "created_date"),
            "title", "description"),
        "created_date", "created_at")

\* ITTicket.from_row at clock value clock
ITTicket_from_row(row, clock) ==
    LET ticket_id == IF row["id"] # 0 THEN row["id"] ELSE Get(row, "ticket_id", NULL)
        title == Or(Get(row, "title", NULL),
                    Or(Get(row, "description", NULL),
                       "Ticket " \o ToString(ticket_id) \o " problem description"))
        created == Or(Get(row, "created_date", NULL),
                      Or(Get(row, "created_at", NULL),
                         Or(Get(row, "created", NULL), Stamp(clock))))
    IN [id |-> row["id"], title |-> title,
        priority |-> Get(row, "priority", "Unknown"),
        status |-> Get(row, "status", "Unknown"),
        created_date |-> created]

NotFound == [found |-> FALSE]
Found(e) == [found |-> TRUE, e |-> e]

\* ITTicket.get_by_id(ticket_id) on table t: what it returns
ITTicket_get_by_id(t, id, clock) ==
    LET e == ensure_it_tickets_table(t) IN
    IF id \in Ids(e) THEN Found(ITTicket_from_row(RowOf(e, id), clock)) ELSE NotFound

TicketInputs ==
    { [title |-> "Printer down", priority |-> "High", status |-> "Open"],
      [title |-> "", priority |-> "High", status |-> "Open"] }
\* the ticket the whole-app behaviours create
AppTicket == CHOOSE in \in TicketInputs : in.title # ""
TicketUpdates == { [priority |-> "Low", status |-> "Closed"] }
AnyId == 1..MaxId

\* pages/1_Dashboard.py, pages/2_AI_Assistant.py: ensure_it_tickets_table()
EnsureTickets ==
    /\ component = "tickets"
    /\ tickets' = ensure_it_tickets_table(tickets)
    /\ ret' = [op |-> "ensure_it_tickets_table", exc |-> OK]
    /\ UNCHANGED <<component, bcryptBuild, open, procs, session, now, users, incidents, datasets, plain>>

\* ITTicket.create(title, priority, status)
ITTicket_create ==
    /\ Uses("tickets")
    /\ tickets.seq < MaxId
    /\ OneRow(tickets)
    /\ \E in \in IF component = "app" THEN {AppTicket} ELSE TicketInputs :
         LET t == ensure_it_tickets_table(tickets)
             created == Stamp(now)
             given == [title |-> in.title, priority |-> in.priority,
                       status |-> in.status, created_date |-> created]
         IN /\ tickets' = Insert(t, given)
            /\ ret' = [op |-> "ITTicket.create", exc |-> OK,
                       val |-> [id |-> t.seq + 1, title |-> in.title,
                                priority |-> in.priority, status |-> in.status,
                                created_date |-> created]]
    /\ UNCHANGED <<component, bcryptBuild, open, procs, session, now, users, incidents, datasets, plain>>

\* ITTicket.get_by_id(ticket_id)
ITTicket_get ==
    /\ component = "tickets"
    /\ \E id \in AnyId :
         /\ tickets' = ensure_it_tickets_table(tickets)
         /\ ret' = [op |-> "ITTicket.get_by_id", id |-> id, exc |-> OK,
                    val |-> ITTicket_get_by_id(tickets, id, now)]
    /\ UNCHANGED <<component, bcryptBuild, open, procs, session, now, users, incidents, datasets, plain>>

\* UPDATE it_tickets SET priority = ?, status = ? WHERE id = ?
UpdateTicketRow(t, id, priority, status) ==
    [t EXCEPT !.rows = {IF r["id"] = id
                        THEN [r EXCEPT !["priority"] = priority, !["status"] = status]
                        ELSE r : r \in @}]

\* ITTicket.update(self, priority, status) on an instance whose id is id
ITTicket_update ==
    /\ component = "tickets"
    /\ \E id \in AnyId, up \in TicketUpdates :
         /\ tickets' = UpdateTicketRow(ensure_it_tickets_table(tickets), id,
                                       up.priority, up.status)
         /\ ret' = [op |-> "ITTicket.update", exc |-> OK, hit |-> id \in Ids(tickets)]
    /\ UNCHANGED <<component, bcryptBuild, open, procs, session, now, users, incidents, datasets, plain>>

\* a DELETE without its WHERE clause
DeleteEveryRow(t, id) == [t EXCEPT !.rows = {}]

\* a DELETE that leaves the row in place
DeleteRowNoop(t, id) == t

\* DELETE FROM <table> WHERE id = ?
DeleteRow(t, id) == [t EXCEPT !.rows = {r \in @ : r["id"] # id}]

\* ITTicket.delete(self) on an instance whose id is id: the table it leaves
ITTicket_delete_call(t, id) == DeleteRow(ensure_it_tickets_table(t), id)

ITTicket_delete(id) ==
    /\ Uses("tickets")
    /\ tickets' = ITTicket_delete_call(tickets, id)
    /\ ret' = [op |-> "ITTicket.delete", exc |-> OK, hit |-> id \in Ids(tickets)]
    /\ UNCHANGED <<component, bcryptBuild, open, procs, session, now, users, incidents, datasets, plain>>

\* ------------------------------------------------- load_data.py: load_it_tickets
LegacyInsertCols == {"ticket_id", "priority", "description", "status", "assigned_to",
                     "created_at", "resolution_time_hours"}

\* rows of Data/it_tickets.csv as pandas hands them over (an empty cell is NULL)
CsvTicket1 ==
    [ticket_id |-> "1001", priority |-> "High", description |-> "Printer down",
     status |-> "Open", assigned_to |-> "sam", created_at |-> "2024-01-05",
     resolution_time_hours |-> "4.5"]
CsvTicket2 ==
    [ticket_id |-> "1002", priority |-> NULL, description |-> NULL,
     status |-> "Closed", assigned_to |-> NULL, created_at |-> NULL,
     resolution_time_hours |-> NULL]
CsvTicketFiles ==
    { [exists |-> FALSE, rows |-> <<>>],
      [exists |-> TRUE, rows |-> <<CsvTicket1>>],
      [exists |-> TRUE, rows |-> <<CsvTicket2, CsvTicket1>>] }

\* DatabaseManager.execute of one INSERT: cursor.execute, then conn.commit();
\* a statement that raises changes nothing and is followed by no commit
ExecuteInsert(t, given, notnull) ==
    IF ~t.exists \/ ~(DOMAIN given \subseteq t.cols)
    THEN [t |-> t, exc |-> "OperationalError"]
    ELSE IF \E c \in notnull : given[c] = NULL
    THEN [t |-> t, exc |-> "IntegrityError"]
    ELSE [t |-> Insert(t, given), exc |-> OK]

\* the for loop of an unguarded loader from row number k on: one db.execute
\* per CSV row, each committed, stopping at the first exception; k in the
\* result is the number of the row that raised, 0 when none did
RECURSIVE ExecuteEach(_, _, _, _)
ExecuteEach(t, rows, notnull, k) ==
    IF rows = <<>> THEN [t |-> t, exc |-> OK, k |-> 0]
    ELSE LET res == ExecuteInsert(t, Head(rows), notnull) IN
         IF res.exc # OK THEN [t |-> t, exc |-> res.exc, k |-> k]
         ELSE ExecuteEach(res.t, Tail(rows), notnull, k + 1)

\* db.execute("DELETE FROM <table>;")
DeleteAll(t) == [t EXCEPT !.rows = {}]

\* load_it_tickets(db): the table it leaves, OK or the exception it raises,
\* and the number of the row that raised
load_it_tickets_call(t, csv) ==
    IF ~csv.exists THEN [t |-> t, exc |-> OK, k |-> 0]
    ELSE IF ~t.exists THEN [t |-> t, exc |-> "OperationalError", k |-> 0]
    ELSE ExecuteEach(DeleteAll(t), csv.rows, {}, 1)

load_it_tickets ==
    /\ component \in {"tickets", "load_data"}
    /\ \E csv \in CsvTicketFiles :
         LET res == load_it_tickets_call(tickets, csv) IN
         /\ tickets.seq + Len(csv.rows) <= MaxId
         /\ tickets' = res.t
         /\ ret' = [op |-> "load_it_tickets", exc |-> res.exc, k |-> res.k, file |-> csv]
    /\ UNCHANGED <<component, bcryptBuild, open, procs, session, now, users, incidents, datasets, plain>>

\* ---------------------------------------------- models.py: SecurityIncident
IncidentCols == {"id", "incident_type", "severity", "description", "status",
                 "detected_at", "resolved_at", "analyst"}

\* SecurityIncident.ensure_table(): the table it leaves
SecurityIncident_ensure_table(t) == CreateIfNotExists(t, IncidentCols)

\* SecurityIncident.from_row
SecurityIncident_from_row(row) ==
    [id |-> row["id"],
     incident_type |-> Or(Get(row, "incident_type", NULL), "Other"),
     severity |-> Or(Get(row, "severity", NULL), "Low"),
     description |-> Or(Get(row, "description", NULL), ""),
     status |-> Or(Get(row, "status", NULL), "Open"),
     detected_at |-> Or(Get(row, "detected_at", NULL), ""),
     resolved_at |-> Get(row, "resolved_at", NULL),
     analyst |-> Get(row, "analyst", NULL)]

\* SecurityIncident.get_by_id(incident_id) on table t: what it returns
SecurityIncident_get_by_id(t, id) ==
    LET e == SecurityIncident_ensure_table(t) IN
    IF id \in Ids(e) THEN Found(SecurityIncident_from_row(RowOf(e, id))) ELSE NotFound

\* ORDER BY id ASC
RECURSIVE OrderByIdAsc(_)
OrderByIdAsc(rows) ==
    IF rows = {} THEN <<>>
    ELSE LET low == CHOOSE r \in rows : \A q \in rows : r["id"] <= q["id"]
         IN <<low>> \o OrderByIdAsc(rows \ {low})

\* ORDER BY id DESC: the rows as a list, highest id first
RECURSIVE OrderByIdDesc(_)
OrderByIdDesc(rows) ==
    IF rows = {} THEN <<>>
    ELSE LET top == CHOOSE r \in rows : \A q \in rows : q["id"] <= r["id"]
         IN <<top>> \o OrderByIdDesc(rows \ {top})

\* SecurityIncident.get_all() on table t: the list it returns
SecurityIncident_get_all(t) ==
    LET found == OrderByIdDesc(SecurityIncident_ensure_table(t).rows)
    IN [i \in 1..Len(found) |-> SecurityIncident_from_row(found[i])]

\* SecurityIncident.count()
SecurityIncident_count(t) == Count(SecurityIncident_ensure_table(t))

\* arguments of create and update; the last one breaks NOT NULL on description
IncidentInputs ==
    { [incident_type |-> "Phishing", severity |-> "High",
       description |-> "Suspicious email", analyst |-> NULL],
      [incident_type |-> "", severity |-> "", description |-> "", analyst |-> ""],
      [incident_type |-> "Malware", severity |-> "Low", description |-> NULL,
       analyst |-> "bob"] }
\* the incident the whole-app behaviours create
AppIncident == CHOOSE in \in IncidentInputs : in.incident_type = "Phishing"
IncidentStatuses == {"Open", "Resolved", "Closed"}
\* arguments of update: the fields of the first and of the last create input
IncidentUpdates == {in \in IncidentInputs : in.incident_type # ""}

\* SecurityIncident.create(...): the table it leaves, OK or the exception it
\* raises, and the entity it returns
SecurityIncident_create_call(t, in, clock) ==
    LET e == SecurityIncident_ensure_table(t)
        ts == Stamp(clock)
        given == [incident_type |-> in.incident_type, severity |-> in.severity,
                  description |-> in.description, status |-> "Open",
                  detected_at |-> ts, resolved_at |-> NULL, analyst |-> in.analyst]
    IN IF ~(DOMAIN given \subseteq e.cols)
       THEN [t |-> e, exc |-> "OperationalError", val |-> NotFound]
       ELSE IF NULL \in {in.incident_type, in.severity, in.description}
       THEN [t |-> e, exc |-> "IntegrityError", val |-> NotFound]
       ELSE [t |-> Insert(e, given), exc |-> OK,
             val |-> Found([id |-> e.seq + 1, incident_type |-> in.incident_type,
                            severity |-> in.severity, description |-> in.description,
                            status |-> "Open", detected_at |-> ts,
                            resolved_at |-> NULL, analyst |-> in.analyst])]

SecurityIncident_create ==
    /\ Uses("incidents")
    /\ incidents.seq < MaxId
    /\ OneRow(incidents)
    /\ \E in \in IF component = "incidents" THEN IncidentInputs ELSE {AppIncident} :
         LET res == SecurityIncident_create_call(incidents, in, now) IN
         /\ incidents' = res.t
         /\ ret' = [op |-> "SecurityIncident.create", exc |-> res.exc, val |-> res.val]
    /\ UNCHANGED <<component, bcryptBuild, open, procs, session, now, users, tickets, datasets, plain>>

SecurityIncident_get ==
    /\ component = "incidents"
    /\ \E id \in AnyId :
         /\ incidents' = SecurityIncident_ensure_table(incidents)
         /\ ret' = [op |-> "SecurityIncident.get_by_id", id |-> id, exc |-> OK,
                    val |-> SecurityIncident_get_by_id(incidents, id)]
    /\ UNCHANGED <<component, bcryptBuild, open, procs, session, now, users, tickets, datasets, plain>>

\* update that keeps a stale resolved_at when the status leaves "Resolved"
ResolvedAtNoClear(prev, status, clock) ==
    IF status = "Resolved" /\ ~Truthy(prev) THEN Stamp(clock) ELSE prev

\* update that never stamps resolved_at
ResolvedAtNoStamp(prev, status, clock) ==
    IF status # "Resolved" THEN NULL ELSE prev

\* update that stamps resolved_at on every write of status "Resolved"
ResolvedAtRestamp(prev, status, clock) ==
    IF status = "Resolved" THEN Stamp(clock) ELSE NULL

\* the resolved_at that update writes, from the current row's resolved_at
\* (None when the row is absent) and the new status
ResolvedAt(prev, status, clock) ==
    LET stamped == IF status = "Resolved" /\ ~Truthy(prev) THEN Stamp(clock) ELSE prev
    IN IF status # "Resolved" THEN NULL ELSE stamped

\* an UPDATE that writes resolved_at only when it is given a value
SecurityIncident_update_statement_coalesce(e, id, in, status, resolved_at) ==
    [t |-> [e EXCEPT !.rows =
               {IF r["id"] = id
                THEN [r EXCEPT !["status"] = status,
                               !["resolved_at"] = IF resolved_at = NULL THEN @
                                                  ELSE resolved_at]
                ELSE r : r \in @}],
     exc |-> OK]

\* the UPDATE statement of update and its commit: the table it leaves and OK
\* or the exception
SecurityIncident_update_statement(e, id, in, status, resolved_at) ==
    LET set == [incident_type |-> in.incident_type, severity |-> in.severity,
                description |-> in.description, status |-> status,
                resolved_at |-> resolved_at, analyst |-> in.analyst]
    IN IF ~(DOMAIN set \subseteq e.cols) THEN [t |-> e, exc |-> "OperationalError"]
       ELSE IF id \in Ids(e) /\ NULL \in {in.incident_type, in.severity, in.description, status}
       THEN [t |-> e, exc |-> "IntegrityError"]
       ELSE [t |-> [e EXCEPT !.rows =
                       {IF r["id"] = id
                        THEN [c \in DOMAIN r |-> IF c \in DOMAIN set THEN set[c] ELSE r[c]]
                        ELSE r : r \in @}],
             exc |-> OK]

\* the resolved_at of the current row as update reads it: get_by_id on a
\* connection of its own, None when the row is absent
CurrentResolvedAt(e, id) ==
    LET current == SecurityIncident_get_by_id(e, id)
    IN IF current.found THEN current.e.resolved_at ELSE NULL

\* SecurityIncident.update(...): the table it leaves and OK or the exception
SecurityIncident_update_call(t, id, in, status, clock) ==
    LET e == SecurityIncident_ensure_table(t)
    IN SecurityIncident_update_statement(
           e, id, in, status, ResolvedAt(CurrentResolvedAt(e, id), status, clock))

SecurityIncident_update(id, in, status) ==
    /\ component = "incidents"
    /\ LET res == SecurityIncident_update_call(incidents, id, in, status, now) IN
       /\ incidents' = res.t
       /\ ret' = [op |-> "SecurityIncident.update", exc |-> res.exc,
                  hit |-> id \in Ids(incidents), at |-> now]
    /\ UNCHANGED <<component, bcryptBuild, open, procs, session, now, users, tickets, datasets, plain>>

\* update up to and including its read of the current row; the UPDATE
\* statement is still to come
SecurityIncident_update_read(s, id, in, status) ==
    /\ component = "concurrent_update"
    /\ procs[s] = Idle
    /\ LET e == SecurityIncident_ensure_table(incidents) IN
       /\ incidents' = e
       /\ procs' = [procs EXCEPT ![s] = [pc |-> "update", id |-> id, in |-> in,
                                         status |-> status,
                                         prev |-> CurrentResolvedAt(e, id)]]
    /\ UNCHANGED <<component, bcryptBuild, open, session, now, users, tickets, datasets,
                   plain, ret>>

\* the rest of update: resolved_at from what was read, the UPDATE, the commit
\* (stale is history: the row's resolved_at is no longer what was read)
SecurityIncident_update_write(s) ==
    /\ component = "concurrent_update"
    /\ procs[s].pc = "update"
    /\ LET p == procs[s]
           res == SecurityIncident_update_statement(
                      incidents, p.id, p.in, p.status, ResolvedAt(p.prev, p.status, now))
       IN
       /\ incidents' = res.t
       /\ ret' = [op |-> "SecurityIncident.update", exc |-> res.exc,
                  hit |-> p.id \in Ids(incidents), at |-> now,
                  stale |-> CurrentResolvedAt(incidents, p.id) # p.prev]
    /\ procs' = [procs EXCEPT ![s] = Idle]
    /\ UNCHANGED <<component, bcryptBuild, open, session, now, users, tickets, datasets, plain>>

\* SecurityIncident.delete(incident_id): the table it leaves
SecurityIncident_delete_call(t, id) == DeleteRow(SecurityIncident_ensure_table(t), id)

SecurityIncident_delete(id) ==
    /\ Uses("incidents")
    /\ incidents' = SecurityIncident_delete_call(incidents, id)
    /\ ret' = [op |-> "SecurityIncident.delete", exc |-> OK,
               hit |-> id \in Ids(incidents)]
    /\ UNCHANGED <<component, bcryptBuild, open, procs, session, now, users, tickets, datasets, plain>>

\* SecurityIncident.get_all()
SecurityIncident_list ==
    /\ component = "incidents"
    /\ incidents' = SecurityIncident_ensure_table(incidents)
    /\ ret' = [op |-> "SecurityIncident.get_all", exc |-> OK,
               val |-> SecurityIncident_get_all(incidents)]
    /\ UNCHANGED <<component, bcryptBuild, open, procs, session, now, users, tickets, datasets, plain>>

\* pages/3_Cybersecurity.py: SecurityIncident.ensure_table()
EnsureIncidents ==
    /\ component = "incidents"
    /\ incidents' = SecurityIncident_ensure_table(incidents)
    /\ ret' = [op |-> "SecurityIncident.ensure_table", exc |-> OK]
    /\ UNCHANGED <<component, bcryptBuild, open, procs, session, now, users, tickets, datasets, plain>>

\* ----------------------------------------------- models.py: DatasetMetadata
DatasetCols == {"id", "dataset_name", "source", "owner", "rows", "size_mb",
                "sensitivity", "last_updated", "status"}

\* DatasetMetadata.ensure_table(): the table it leaves
DatasetMetadata_ensure_table(t) == CreateIfNotExists(t, DatasetCols)

\* a numeric argument is an int (float values are whole numbers here), a text
\* or None
IntArg(n) == [t |-> "int", v |-> n]
TextArg(s) == [t |-> "str", s |-> s]
NoneArg == [t |-> "none"]
NumericTexts == {"12"}
NumberOfText(s) == IF s = "12" THEN 12 ELSE 0

\* DatasetMetadata._safe_int / _safe_float: int(v) / float(v), 0 on
\* TypeError or ValueError
SafeNumber(a) ==
    IF a.t = "int" THEN a.v
    ELSE IF a.t = "str" /\ a.s \in NumericTexts THEN NumberOfText(a.s)
    ELSE 0

\* row.get(col) of a numeric column: the stored number, or None when the
\* table has no such column
Cell(row, col) == IF col \in DOMAIN row THEN IntArg(row[col]) ELSE NoneArg

\* DatasetMetadata.from_row
DatasetMetadata_from_row(row) ==
    [id |-> row["id"],
     dataset_name |-> Or(Get(row, "dataset_name", NULL), "Unnamed Dataset"),
     source |-> Or(Get(row, "source", NULL), "Unknown"),
     owner |-> Or(Get(row, "owner", NULL), "Unknown"),
     rows |-> SafeNumber(Cell(row, "rows")),
     size_mb |-> SafeNumber(Cell(row, "size_mb")),
     sensitivity |-> Or(Get(row, "sensitivity", NULL), "Low"),
     last_updated |-> Or(Get(row, "last_updated", NULL), ""),
     status |-> Or(Get(row, "status", NULL), "Active")]

\* DatasetMetadata.get_by_id(dataset_id) on table t: what it returns
DatasetMetadata_get_by_id(t, id) ==
    LET e == DatasetMetadata_ensure_table(t) IN
    IF id \in Ids(e) THEN Found(DatasetMetadata_from_row(RowOf(e, id))) ELSE NotFound

\* DatasetMetadata.get_all() on table t: the list it returns
DatasetMetadata_get_all(t) ==
    LET found == OrderByIdDesc(DatasetMetadata_ensure_table(t).rows)
    IN [i \in 1..Len(found) |-> DatasetMetadata_from_row(found[i])]

\* DatasetMetadata.count()
DatasetMetadata_count(t) == Count(DatasetMetadata_ensure_table(t))

\* a last_updated the caller supplies: a time before the clock's first value
Earlier == "2023-01-01T00:00:00"

\* arguments of create and update
DatasetInputs ==
    { [dataset_name |-> "Sales2023", source |-> "Finance", owner |-> "alice",
       rows |-> IntArg(10000), size_mb |-> IntArg(250), sensitivity |-> "Low",
       status |-> "Active", last_updated |-> NULL],
      [dataset_name |-> "", source |-> "", owner |-> "",
       rows |-> IntArg(0), size_mb |-> IntArg(0), sensitivity |-> "",
       status |-> "", last_updated |-> NULL],
      [dataset_name |-> "Logs", source |-> "Ops", owner |-> "bob",
       rows |-> TextArg("abc"), size_mb |-> IntArg(-1), sensitivity |-> "High",
       status |-> "Archived", last_updated |-> Earlier],
      [dataset_name |-> NULL, source |-> "Ops", owner |-> "bob",
       rows |-> TextArg("12"), size_mb |-> NoneArg, sensitivity |-> "High",
       status |-> "Active", last_updated |-> NULL] }
\* the dataset the whole-app behaviours create
AppDataset == CHOOSE in \in DatasetInputs : in.dataset_name = "Sales2023"
DatasetUpdates == {in \in DatasetInputs : in.dataset_name # ""}

\* DatasetMetadata.create(...): the table it leaves, OK or the exception it
\* raises, and the entity it returns
DatasetMetadata_create_call(t, in, clock) ==
    LET e == DatasetMetadata_ensure_table(t)
        ts == Or(in.last_updated, Stamp(clock))
        given == [dataset_name |-> in.dataset_name, source |-> in.source,
                  owner |-> in.owner, rows |-> SafeNumber(in.rows),
                  size_mb |-> SafeNumber(in.size_mb), sensitivity |-> in.sensitivity,
                  last_updated |-> ts, status |-> in.status]
    IN IF ~(DOMAIN given \subseteq e.cols)
       THEN [t |-> e, exc |-> "OperationalError", val |-> NotFound]
       ELSE IF NULL \in {in.dataset_name, in.source, in.owner, in.sensitivity, in.status}
       THEN [t |-> e, exc |-> "IntegrityError", val |-> NotFound]
       ELSE [t |-> Insert(e, given), exc |-> OK,
             val |-> Found([id |-> e.seq + 1, dataset_name |-> in.dataset_name,
                            source |-> in.source, owner |-> in.owner,
                            rows |-> SafeNumber(in.rows),
                            size_mb |-> SafeNumber(in.size_mb),
                            sensitivity |-> in.sensitivity, last_updated |-> ts,
                            status |-> in.status])]

DatasetMetadata_create ==
    /\ Uses("datasets")
    /\ datasets.seq < MaxId
    /\ OneRow(datasets)
    /\ \E in \in IF component = "app" THEN {AppDataset} ELSE DatasetInputs :
         LET res == DatasetMetadata_create_call(datasets, in, now) IN
         /\ datasets' = res.t
         /\ ret' = [op |-> "DatasetMetadata.create", exc |-> res.exc, val |-> res.val]
    /\ UNCHANGED <<component, bcryptBuild, open, procs, session, now, users, tickets, incidents, plain>>

DatasetMetadata_get ==
    /\ component = "datasets"
    /\ \E id \in AnyId :
         /\ datasets' = DatasetMetadata_ensure_table(datasets)
         /\ ret' = [op |-> "DatasetMetadata.get_by_id", id |-> id, exc |-> OK,
                    val |-> DatasetMetadata_get_by_id(datasets, id)]
    /\ UNCHANGED <<component, bcryptBuild, open, procs, session, now, users, tickets, incidents, plain>>

\* DatasetMetadata.update(...): the table it leaves and OK or the exception
DatasetMetadata_update_call(t, id, in, clock) ==
    LET e == DatasetMetadata_ensure_table(t)
        set == [dataset_name |-> in.dataset_name, source |-> in.source,
                owner |-> in.owner, rows |-> SafeNumber(in.rows),
                size_mb |-> SafeNumber(in.size_mb), sensitivity |-> in.sensitivity,
                last_updated |-> Stamp(clock), status |-> in.status]
    IN IF ~(DOMAIN set \subseteq e.cols) THEN [t |-> e, exc |-> "OperationalError"]
       ELSE IF id \in Ids(e)
               /\ NULL \in {in.dataset_name, in.source, in.owner, in.sensitivity, in.status}
       THEN [t |-> e, exc |-> "IntegrityError"]
       ELSE [t |-> [e EXCEPT !.rows =
                       {IF r["id"] = id
                        THEN [c \in DOMAIN r |-> IF c \in DOMAIN set THEN set[c] ELSE r[c]]
                        ELSE r : r \in @}],
             exc |-> OK]

DatasetMetadata_update(id, in) ==
    /\ component = "datasets"
    /\ LET res == DatasetMetadata_update_call(datasets, id, in, now) IN
       /\ datasets' = res.t
       /\ ret' = [op |-> "DatasetMetadata.update", exc |-> res.exc,
                  hit |-> id \in Ids(datasets)]
    /\ UNCHANGED <<component, bcryptBuild, open, procs, session, now, users, tickets, incidents, plain>>

\* DatasetMetadata.delete(dataset_id): the table it leaves
DatasetMetadata_delete_call(t, id) == DeleteRow(DatasetMetadata_ensure_table(t), id)

DatasetMetadata_delete(id) ==
    /\ Uses("datasets")
    /\ datasets' = DatasetMetadata_delete_call(datasets, id)
    /\ ret' = [op |-> "DatasetMetadata.delete", exc |-> OK,
               hit |-> id \in Ids(datasets)]
    /\ UNCHANGED <<component, bcryptBuild, open, procs, session, now, users, tickets, incidents, plain>>

\* DatasetMetadata.get_all()
DatasetMetadata_list ==
    /\ component = "datasets"
    /\ datasets' = DatasetMetadata_ensure_table(datasets)
    /\ ret' = [op |-> "DatasetMetadata.get_all", exc |-> OK,
               val |-> DatasetMetadata_get_all(datasets)]
    /\ UNCHANGED <<component, bcryptBuild, open, procs, session, now, users, tickets, incidents, plain>>

\* pages/4_DataScience.py: DatasetMetadata.ensure_table()
EnsureDatasets ==
    /\ component = "datasets"
    /\ datasets' = DatasetMetadata_ensure_table(datasets)
    /\ ret' = [op |-> "DatasetMetadata.ensure_table", exc |-> OK]
    /\ UNCHANGED <<component, bcryptBuild, open, procs, session, now, users, tickets, incidents, plain>>

\* ------------------------------------------- load_data.py: guarded loaders
\* the names bound at module level in load_data.py: its three imports, the
\* two path names and its functions
LoadDataGlobals ==
    {"os", "pd", "DatabaseManager", "BASE_DIR", "DATA_DIR",
     "load_cyber_incidents", "load_datasets_metadata", "load_it_tickets", "main",
     "load_cyber_incidents_from_csv", "load_datasets_metadata_from_csv"}

\* Data/cyber_incidents.csv: absent, header only, or one row
CsvIncident1 ==
    [incident_type |-> "Phishing", severity |-> "High",
     description |-> "Imported from CSV", analyst |-> NULL]
CsvIncidentFiles ==
    { [exists |-> FALSE, rows |-> <<>>],
      [exists |-> TRUE, rows |-> <<>>],
      [exists |-> TRUE, rows |-> <<CsvIncident1>>] }

\* the for loop of load_cyber_incidents_from_csv: one SecurityIncident.create
\* per row, stopping at the first exception (val is the return value when no
\* exception is raised, k the number of the row that raised, 0 when none did)
RECURSIVE CreateIncidents(_, _, _, _)
CreateIncidents(t, rows, clock, inserted) ==
    IF rows = <<>> THEN [t |-> t, exc |-> OK, val |-> inserted, k |-> 0]
    ELSE LET res == SecurityIncident_create_call(t, Head(rows), clock) IN
         IF res.exc # OK THEN [t |-> res.t, exc |-> res.exc, val |-> 0, k |-> inserted + 1]
         ELSE CreateIncidents(res.t, Tail(rows), clock, inserted + 1)

\* the loader that creates every row of the file whatever the table holds
load_cyber_incidents_unguarded(t, csv, clock) ==
    CreateIncidents(SecurityIncident_ensure_table(t), csv.rows, clock, 0)

\* load_cyber_incidents_from_csv(csv_path): the table it leaves, OK or the
\* exception it raises, and the number it returns
load_cyber_incidents_from_csv_call(t, csv, clock) ==
    IF "SecurityIncident" \notin LoadDataGlobals
    THEN [t |-> t, exc |-> "NameError", val |-> 0, k |-> 0]
    ELSE LET e == SecurityIncident_ensure_table(t) IN
         IF SecurityIncident_count(e) > 0 THEN [t |-> e, exc |-> OK, val |-> 0, k |-> 0]
         ELSE IF ~csv.exists THEN [t |-> e, exc |-> "FileNotFoundError", val |-> 0, k |-> 0]
         ELSE CreateIncidents(e, csv.rows, clock, 0)

load_cyber_incidents_from_csv ==
    /\ component = "incidents"
    /\ \E csv \in CsvIncidentFiles :
         LET res == load_cyber_incidents_from_csv_call(incidents, csv, now) IN
         /\ incidents.seq + Len(csv.rows) <= MaxId
         /\ incidents' = res.t
         /\ ret' = [op |-> "load_cyber_incidents_from_csv", exc |-> res.exc,
                    val |-> res.val, again |-> ret.op = "load_cyber_incidents_from_csv",
                    file |-> csv, k |-> res.k, empty |-> Count(incidents) = 0]
    /\ UNCHANGED <<component, bcryptBuild, open, procs, session, now, users, tickets, datasets, plain>>

\* Data/datasets_metadata.csv: absent, header only, or one row
CsvDataset1 ==
    [dataset_name |-> "Sales2023", source |-> "Finance", owner |-> "alice",
     rows |-> IntArg(10000), size_mb |-> IntArg(250), sensitivity |-> "Low",
     status |-> "Active", last_updated |-> NULL]
\* a row whose rows cell holds a text that is no number
CsvDataset2 ==
    [dataset_name |-> "Logs", source |-> "Ops", owner |-> "bob",
     rows |-> TextArg("abc"), size_mb |-> IntArg(12), sensitivity |-> "High",
     status |-> "Archived", last_updated |-> NULL]
CsvDatasetFiles ==
    { [exists |-> FALSE, rows |-> <<>>],
      [exists |-> TRUE, rows |-> <<>>],
      [exists |-> TRUE, rows |-> <<CsvDataset1>>],
      [exists |-> TRUE, rows |-> <<CsvDataset2>>] }

\* int(v) / float(v) as the loader calls them raise ValueError or TypeError
\* on a text that is no number and on None
RawNumberRaises(a) == ~(a.t = "int" \/ (a.t = "str" /\ a.s \in NumericTexts))

\* the for loop of load_datasets_metadata_from_csv
RECURSIVE CreateDatasets(_, _, _, _)
CreateDatasets(t, rows, clock, inserted) ==
    IF rows = <<>> THEN [t |-> t, exc |-> OK, val |-> inserted, k |-> 0]
    ELSE IF RawNumberRaises(Head(rows).rows) \/ RawNumberRaises(Head(rows).size_mb)
    THEN [t |-> t, exc |-> "ValueError", val |-> 0, k |-> inserted + 1]
    ELSE LET res == DatasetMetadata_create_call(t, Head(rows), clock) IN
         IF res.exc # OK THEN [t |-> res.t, exc |-> res.exc, val |-> 0, k |-> inserted + 1]
         ELSE CreateDatasets(res.t, Tail(rows), clock, inserted + 1)

\* load_datasets_metadata_from_csv(csv_path): the table it leaves, OK or the
\* exception it raises, and the number it returns
load_datasets_metadata_from_csv_call(t, csv, clock) ==
    IF "DatasetMetadata" \notin LoadDataGlobals
    THEN [t |-> t, exc |-> "NameError", val |-> 0, k |-> 0]
    ELSE LET e == DatasetMetadata_ensure_table(t) IN
         IF DatasetMetadata_count(e) > 0 THEN [t |-> e, exc |-> OK, val |-> 0, k |-> 0]
         ELSE IF ~csv.exists THEN [t |-> e, exc |-> "FileNotFoundError", val |-> 0, k |-> 0]
         ELSE CreateDatasets(e, csv.rows, clock, 0)

load_datasets_metadata_from_csv ==
    /\ component = "datasets"
    /\ \E csv \in CsvDatasetFiles :
         LET res == load_datasets_metadata_from_csv_call(datasets, csv, now) IN
         /\ datasets.seq + Len(csv.rows) <= MaxId
         /\ datasets' = res.t
         /\ ret' = [op |-> "load_datasets_metadata_from_csv", exc |-> res.exc,
                    val |-> res.val, again |-> ret.op = "load_datasets_metadata_from_csv",
                    file |-> csv, k |-> res.k, empty |-> Count(datasets) = 0]
    /\ UNCHANGED <<component, bcryptBuild, open, procs, session, now, users, tickets, incidents, plain>>

\* ------------------------------------------ load_data.py: unguarded loaders
\* rows of Data/cyber_incidents.csv (columns category, severity, status,
\* timestamp); an empty cell reaches SQLite as NULL
LegacyCsvIncident1 ==
    [category |-> "Phishing", severity |-> "High", status |-> "Open",
     timestamp |-> "2024-01-05"]
LegacyCsvIncident2 ==
    [category |-> NULL, severity |-> "Low", status |-> "Closed",
     timestamp |-> "2024-01-06"]
LegacyCsvIncidentFiles ==
    { [exists |-> FALSE, rows |-> <<>>],
      [exists |-> TRUE, rows |-> <<LegacyCsvIncident1>>],
      [exists |-> TRUE, rows |-> <<LegacyCsvIncident1, LegacyCsvIncident2>>] }

\* the parameters load_cyber_incidents binds for one CSV row
IncidentParams(row) ==
    [incident_type |-> row.category, severity |-> row.severity,
     response_time_hours |-> NULL, status |-> row.status,
     reported_at |-> row.timestamp]

\* a loader whose inserts share one transaction that is rolled back when a
\* row raises
load_cyber_incidents_rollback(t, csv) ==
    IF ~csv.exists THEN [t |-> t, exc |-> OK, k |-> 0]
    ELSE IF ~t.exists THEN [t |-> t, exc |-> "OperationalError", k |-> 0]
    ELSE LET res == ExecuteEach(DeleteAll(t),
                                [i \in 1..Len(csv.rows) |-> IncidentParams(csv.rows[i])],
                                {"incident_type"}, 1)
         IN IF res.exc = OK THEN res ELSE [res EXCEPT !.t = t]

\* load_cyber_incidents(db): the table it leaves, OK or the exception it
\* raises, and the number of the row that raised
load_cyber_incidents_call(t, csv) ==
    IF ~csv.exists THEN [t |-> t, exc |-> OK, k |-> 0]
    ELSE IF ~t.exists THEN [t |-> t, exc |-> "OperationalError", k |-> 0]
    ELSE ExecuteEach(DeleteAll(t),
                     [i \in 1..Len(csv.rows) |-> IncidentParams(csv.rows[i])],
                     {"incident_type"}, 1)

load_cyber_incidents ==
    /\ component = "load_data"
    /\ \E csv \in LegacyCsvIncidentFiles :
         LET res == load_cyber_incidents_call(incidents, csv) IN
         /\ incidents.seq + Len(csv.rows) <= MaxId
         /\ incidents' = res.t
         /\ ret' = [op |-> "load_cyber_incidents", exc |-> res.exc, k |-> res.k,
                    file |-> csv]
    /\ UNCHANGED <<component, bcryptBuild, open, procs, session, now, users, tickets, datasets, plain>>

\* rows of Data/datasets_metadata.csv (columns name, uploaded_by, upload_date)
LegacyCsvDataset1 ==
    [name |-> "Sales2023", uploaded_by |-> "alice", upload_date |-> "2024-01-05"]
LegacyCsvDataset2 ==
    [name |-> NULL, uploaded_by |-> "bob", upload_date |-> "2024-01-06"]
LegacyCsvDatasetFiles ==
    { [exists |-> FALSE, rows |-> <<>>],
      [exists |-> TRUE, rows |-> <<LegacyCsvDataset1>>],
      [exists |-> TRUE, rows |-> <<LegacyCsvDataset1, LegacyCsvDataset2>>] }

\* the parameters load_datasets_metadata binds for one CSV row
DatasetParams(row) ==
    [dataset_name |-> row.name, owner |-> row.uploaded_by, size_mb |-> NULL,
     department |-> NULL, created_at |-> row.upload_date]

\* load_datasets_metadata(db)
load_datasets_metadata_call(t, csv) ==
    IF ~csv.exists THEN [t |-> t, exc |-> OK, k |-> 0]
    ELSE IF ~t.exists THEN [t |-> t, exc |-> "OperationalError", k |-> 0]
    ELSE ExecuteEach(DeleteAll(t),
                     [i \in 1..Len(csv.rows) |-> DatasetParams(csv.rows[i])],
                     {"dataset_name"}, 1)

load_datasets_metadata ==
    /\ component = "load_data"
    /\ \E csv \in LegacyCsvDatasetFiles :
         LET res == load_datasets_metadata_call(datasets, csv) IN
         /\ datasets.seq + Len(csv.rows) <= MaxId
         /\ datasets' = res.t
         /\ ret' = [op |-> "load_datasets_metadata", exc |-> res.exc, k |-> res.k,
                    file |-> csv]
    /\ UNCHANGED <<component, bcryptBuild, open, procs, session, now, users, tickets, incidents, plain>>

\* ------------------------------------------------------ Home.py and pages/
\* Home.py lines 6-10: each key is initialised when the session lacks it
HomeInit(ss) ==
    [ss EXCEPT !.logged_in = IF @ = Unset THEN "False" ELSE @,
               !.username = IF @ = Unset THEN "" ELSE @]

\* Home.py is opened, or reruns for a widget other than the two buttons
OpenHome ==
    /\ component = "session"
    /\ session' = HomeInit(session)
    /\ ret' = [op |-> "Home.py", exc |-> OK]
    /\ UNCHANGED <<component, bcryptBuild, open, procs, now, users, tickets, incidents,
                   datasets, plain>>

\* the "Log in" button: Home.py runs from its top, stops before the tabs when
\* the session is logged in, and otherwise calls verify_user
Login(u, pw) ==
    /\ component = "session"
    /\ HomeInit(session).logged_in = "False"
    /\ LET ok == verify_user(u, pw) IN
       /\ session' = IF ok = "True"
                     THEN [logged_in |-> "True", username |-> u, verified |-> u]
                     ELSE HomeInit(session)
       /\ ret' = [op |-> "Log in", username |-> u, exc |-> ok]
       /\ \E leak \in BOOLEAN :
            open' = WithGetConn(open, "verify_user", ok \notin {"True", "False"}, leak)
    /\ UNCHANGED <<component, bcryptBuild, procs, now, users, tickets, incidents,
                   datasets, plain>>

\* the page scripts of pages/
DashboardPage == "pages/1_Dashboard.py"
AssistantPage == "pages/2_AI_Assistant.py"
CybersecurityPage == "pages/3_Cybersecurity.py"
DataSciencePage == "pages/4_DataScience.py"
Pages == {DashboardPage, AssistantPage, CybersecurityPage, DataSciencePage}

\* the "Log out" button in the sidebar of the dashboard and of the assistant
\* page, drawn before the page's guard
Logout ==
    /\ component = "session"
    /\ session' = [logged_in |-> "False", username |-> "", verified |-> NULL]
    /\ ret' = [op |-> "Log out", exc |-> OK]
    /\ UNCHANGED <<component, bcryptBuild, open, procs, now, users, tickets, incidents,
                   datasets, plain>>

\* session state after the lines of a page that precede its guard: the
\* dashboard sets logged_in to False when the key is missing, and no page
\* sets username
PageInit(page, ss) ==
    IF page = DashboardPage /\ ss.logged_in = Unset THEN [ss EXCEPT !.logged_in = "False"]
    ELSE ss

\* the guard of a page: passes when st.stop() is not reached
PageGuard(ss) == ss.logged_in = "True"

\* a page is opened or reruns: past the guard it reconciles its table and
\* lists it (ensure ..., get_all)
OpenPage(page) ==
    /\ component = "session"
    /\ session' = PageInit(page, session)
    /\ LET pass == PageGuard(PageInit(page, session)) IN
       /\ ret' = [op |-> page, exc |-> IF pass THEN OK ELSE "You must log in first."]
       /\ tickets' = IF pass /\ page \in {DashboardPage, AssistantPage}
                     THEN ensure_it_tickets_table(tickets) ELSE tickets
       /\ incidents' = IF pass /\ page = CybersecurityPage
                       THEN SecurityIncident_ensure_table(incidents) ELSE incidents
       /\ datasets' = IF pass /\ page = DataSciencePage
                      THEN DatasetMetadata_ensure_table(datasets) ELSE datasets
    /\ UNCHANGED <<component, bcryptBuild, open, procs, now, users, plain>>

\* --------------------------------------------------------------------- clock
Tick ==
    /\ component \notin {"auth", "app", "load_data"}
    /\ now < MaxClock
    /\ now' = now + 1
    /\ UNCHANGED <<component, bcryptBuild, open, procs, session, users, tickets, incidents, datasets, plain, ret>>

\* a collection finalises the connections nothing refers to any more
Collect ==
    /\ open # {}
    /\ open' = {}
    /\ UNCHANGED <<component, bcryptBuild, procs, session, now, users, tickets, incidents, datasets, plain, ret>>

Components == {"auth", "tickets", "incidents", "datasets", "app"}

\* a database file that does not exist yet, no call made, nobody logged in
Fresh ==
    /\ open = {}
    /\ procs = [s \in Sessions |-> Idle]
    /\ session = NewSession
    /\ now = 0
    /\ users = Absent
    /\ tickets = Absent
    /\ incidents = Absent
    /\ datasets = Absent
    /\ plain = {}
    /\ ret = [op |-> "none", exc |-> OK]

Init ==
    /\ component \in Components
    /\ bcryptBuild \in (IF component = "auth" THEN {"truncate", "strict"} ELSE {"truncate"})
    /\ Fresh

RegisterUserStep ==
    \E u \in Usernames, pw \in Passwords, salt \in Salts :
        /\ component # "auth" => (u = "alice" /\ pw = <<1>> /\ salt = 101)
        /\ register_user(u, pw, salt)

VerifyUserStep == \E u \in Usernames, pw \in Passwords : VerifyUser(u, pw)

RegisterFormStep ==
    \E u \in Usernames, pw \in Passwords, confirm \in Passwords, salt \in Salts :
        RegisterForm(u, pw, confirm, salt)

ITTicketDeleteStep == \E id \in AnyId : ITTicket_delete(id)

SecurityIncidentDeleteStep == \E id \in AnyId : SecurityIncident_delete(id)

DatasetMetadataDeleteStep == \E id \in AnyId : DatasetMetadata_delete(id)

DatasetMetadataUpdateStep ==
    \E id \in AnyId, in \in DatasetUpdates : DatasetMetadata_update(id, in)

SecurityIncidentUpdateStep ==
    \E id \in AnyId, in \in IncidentUpdates, status \in IncidentStatuses :
        SecurityIncident_update(id, in, status)

Next ==
    \/ create_tables
    \/ Tick
    \/ Collect
    \/ RegisterUserStep
    \/ VerifyUserStep
    \/ RegisterFormStep
    \/ EnsureTickets
    \/ ITTicket_create
    \/ ITTicket_get
    \/ ITTicket_update
    \/ ITTicketDeleteStep
    \/ load_it_tickets
    \/ EnsureIncidents
    \/ SecurityIncident_create
    \/ SecurityIncident_get
    \/ SecurityIncident_list
    \/ SecurityIncidentUpdateStep
    \/ SecurityIncidentDeleteStep
    \/ EnsureDatasets
    \/ DatasetMetadata_create
    \/ DatasetMetadata_get
    \/ DatasetMetadata_list
    \/ DatasetMetadataUpdateStep
    \/ DatasetMetadataDeleteStep
    \/ load_cyber_incidents_from_csv
    \/ load_datasets_metadata_from_csv

Spec == Init /\ [][Next]_vars

\* ------------------------------------------------- load_data.py as a script
\* the behaviours of the import scripts: db_manager.py creates the tables, the
\* loaders of load_data.main run against them, any number of times
InitLoadData ==
    /\ component = "load_data"
    /\ bcryptBuild = "truncate"
    /\ Fresh

NextLoadData ==
    \/ create_tables
    \/ load_cyber_incidents
    \/ load_datasets_metadata
    \/ load_it_tickets

SpecLoadData == InitLoadData /\ [][NextLoadData]_vars

\* ------------------------------------- concurrent sessions on one incident
\* two browser sessions on pages/3_Cybersecurity.py: every statement runs on
\* a connection of its own, so the read and the UPDATE of one update call
\* interleave with the statements of the other session
InitConcurrentUpdate ==
    /\ component = "concurrent_update"
    /\ bcryptBuild = "truncate"
    /\ Fresh

UpdateReadStep ==
    \E s \in Sessions, id \in AnyId, status \in IncidentStatuses :
        SecurityIncident_update_read(s, id, AppIncident, status)

UpdateWriteStep == \E s \in Sessions : SecurityIncident_update_write(s)

NextConcurrentUpdate ==
    \/ SecurityIncident_create
    \/ UpdateReadStep
    \/ UpdateWriteStep
    \/ SecurityIncidentDeleteStep
    \/ Tick

SpecConcurrentUpdate == InitConcurrentUpdate /\ [][NextConcurrentUpdate]_vars

\* ------------------------------------- concurrent sessions on one username
\* two browser sessions on the register tab of Home.py, each submitting the
\* form once for the same username, on a database in which
\* DatabaseManager.create_tables has created the users table
InitConcurrentRegister ==
    /\ component = "concurrent_register"
    /\ bcryptBuild \in {"truncate", "strict"}
    /\ open = {}
    /\ procs = [s \in Sessions |-> Idle]
    /\ session = NewSession
    /\ now = 0
    /\ users = CreateIfNotExists(Absent, UsersCols)
    /\ tickets = Absent
    /\ incidents = Absent
    /\ datasets = Absent
    /\ plain = {}
    /\ ret = [op |-> "none", exc |-> OK]

RegisterCheckStep ==
    \E s \in Sessions, pw \in Passwords : RegisterForm_check(s, "alice", pw, pw)

RegisterRegisterStep ==
    \E s \in Sessions, salt \in Salts : RegisterForm_register(s, salt)

NextConcurrentRegister ==
    \/ RegisterCheckStep
    \/ RegisterRegisterStep
    \/ Collect

SpecConcurrentRegister == InitConcurrentRegister /\ [][NextConcurrentRegister]_vars

\* ------------------------------------------------------- one web session
\* one browser session that opens Home.py and the pages in any order, logs
\* in and out, with an account that register_user may have stored
InitSession ==
    /\ component = "session"
    /\ bcryptBuild \in {"truncate", "strict"}
    /\ Fresh

LoginStep == \E u \in Usernames, pw \in Passwords : Login(u, pw)

OpenPageStep == \E page \in Pages : OpenPage(page)

NextSession ==
    \/ create_tables
    \/ RegisterUserStep
    \/ OpenHome
    \/ LoginStep
    \/ Logout
    \/ OpenPageStep
    \/ Collect

SpecSession == InitSession /\ [][NextSession]_vars

\* ===================================================================== claims

\* C1: once register(u, p) has succeeded, verify(u, p) returns true and
\* verify(u, q) returns false for every q # p; verify(v, q) returns false for
\* every username v that was never registered.
C1_RegisterThenVerify ==
    users.exists =>
        \A u \in Usernames, q \in Passwords :
            verify_user(u, q) = IF <<u, q>> \in plain THEN "True" ELSE "False"

\* C2: a register call for a username that is already stored fails with the
\* duplicate-user error (sqlite3.IntegrityError from the UNIQUE constraint) and
\* leaves the stored row, and so the stored hash, as the first call wrote it.
C2_DuplicateRegisterFails ==
    [][\A u \in Usernames, pw \in Passwords, salt \in Salts :
          (user_exists(u) = "True" /\ register_user(u, pw, salt))
              => (ret'.exc = "IntegrityError" /\ users' = users)]_vars

\* C3: the users table holds at most one row per username and no row with
\* an empty username.
C3_UniqueNonEmptyUsernames ==
    /\ \A r1, r2 \in users.rows : r1["username"] = r2["username"] => r1 = r2
    /\ \A r \in users.rows : r["username"] # ""

\* C4: in every store, get(id) right after create returns an entity equal
\* field by field to the one create returned, whatever field values create
\* accepted (empty strings included).
C4_CreateThenGet ==
    /\ (ret.op = "ITTicket.create" /\ ret.exc = OK)
           => ITTicket_get_by_id(tickets, ret.val.id, now) = Found(ret.val)
    /\ (ret.op = "SecurityIncident.create" /\ ret.exc = OK)
           => SecurityIncident_get_by_id(incidents, ret.val.e.id) = ret.val
    /\ (ret.op = "DatasetMetadata.create" /\ ret.exc = OK)
           => DatasetMetadata_get_by_id(datasets, ret.val.e.id) = ret.val

\* C5: every stored incident has resolved_at non-null if and only if its
\* status is exactly "Resolved".
C5_ResolvedAtIffResolved ==
    \A r \in incidents.rows : (r["resolved_at"] # NULL) <=> (r["status"] = "Resolved")

\* two stored incidents, one resolved by update and one moved to "Closed"
C5_Witness ==
    /\ ret.op = "SecurityIncident.update"
    /\ \E r1, r2 \in incidents.rows :
         /\ r1["status"] = "Resolved" /\ r1["resolved_at"] # NULL
         /\ r2["status"] = "Closed" /\ r2["resolved_at"] = NULL

\* C6: for an existing incident, update with status "Resolved" leaves a
\* non-null resolved_at when it was null before, and update with any other
\* status leaves resolved_at null whatever it was before.
C6_UpdateSetsResolvedAt ==
    [][\A id \in AnyId, in \in IncidentUpdates, status \in IncidentStatuses :
          (id \in Ids(incidents) /\ SecurityIncident_update(id, in, status)
             /\ ret'.exc = OK)
              => LET before == RowOf(incidents, id)["resolved_at"]
                     after == RowOf(incidents', id)["resolved_at"]
                 IN /\ (status = "Resolved" /\ before = NULL) => after # NULL
                    /\ status # "Resolved" => after = NULL]_vars

\* an update of an existing incident has just stamped resolved_at at a clock
\* value later than the incident's creation
C6_Witness ==
    /\ ret.op = "SecurityIncident.update" /\ ret.exc = OK /\ ret.hit
    /\ \E r \in incidents.rows :
         /\ r["status"] = "Resolved"
         /\ r["resolved_at"] = Stamp(now)
         /\ r["detected_at"] # Stamp(now)

\* C7 (as the code has it): in every store, delete(id) returns normally and
\* get(id) after it returns None; on an id that is not in the table, delete
\* leaves the table as the schema reconciliation that opens every store
\* operation leaves it, removing and altering no row beyond that.
C7_DeleteThenGet ==
    [][\A id \in AnyId :
          /\ ITTicket_delete(id)
                => /\ ret'.exc = OK
                   /\ ITTicket_get_by_id(tickets', id, now') = NotFound
                   /\ id \notin Ids(tickets)
                          => tickets' = ensure_it_tickets_table(tickets)
          /\ SecurityIncident_delete(id)
                => /\ ret'.exc = OK
                   /\ SecurityIncident_get_by_id(incidents', id) = NotFound
                   /\ id \notin Ids(incidents)
                          => incidents' = SecurityIncident_ensure_table(incidents)
          /\ DatasetMetadata_delete(id)
                => /\ ret'.exc = OK
                   /\ DatasetMetadata_get_by_id(datasets', id) = NotFound
                   /\ id \notin Ids(datasets)
                          => datasets' = DatasetMetadata_ensure_table(datasets)]_vars

\* C7 as stated: delete on an id that is not in the table leaves the table
\* exactly as it was.
C7_DeleteAbsentLeavesTable ==
    [][\A id \in AnyId :
          /\ (ITTicket_delete(id) /\ id \notin Ids(tickets)) => tickets' = tickets
          /\ (SecurityIncident_delete(id) /\ id \notin Ids(incidents))
                => incidents' = incidents
          /\ (DatasetMetadata_delete(id) /\ id \notin Ids(datasets))
                => datasets' = datasets]_vars

\* a delete has just removed a stored ticket and another ticket is still stored
C7_Witness ==
    /\ ret.op = "ITTicket.delete" /\ ret.hit
    /\ tickets.rows # {}

C9_LoaderSkipsNonEmptyTable ==
    [][/\ (Count(incidents) > 0 /\ load_cyber_incidents_from_csv)
             => (ret'.exc = OK /\ ret'.val = 0 /\ incidents'.rows = incidents.rows)
       /\ (Count(datasets) > 0 /\ load_datasets_metadata_from_csv)
             => (ret'.exc = OK /\ ret'.val = 0 /\ datasets'.rows = datasets.rows)]_vars

\* the operations of each store that begin with its schema reconciliation
TicketStoreOps == {"ensure_it_tickets_table", "ITTicket.create", "ITTicket.get_by_id",
                   "ITTicket.update", "ITTicket.delete"}
IncidentStoreOps == {"SecurityIncident.ensure_table", "SecurityIncident.create",
                     "SecurityIncident.get_by_id", "SecurityIncident.get_all",
                     "SecurityIncident.update",
                     "SecurityIncident.delete"}
DatasetStoreOps == {"DatasetMetadata.ensure_table", "DatasetMetadata.create",
                    "DatasetMetadata.get_by_id", "DatasetMetadata.get_all",
                    "DatasetMetadata.update",
                    "DatasetMetadata.delete"}

\* C10: for each of the three stores and from any table state, the schema
\* reconciliation run twice leaves the columns and rows that one run leaves,
\* and run on a table that a store operation has already reconciled it
\* changes nothing.
C10_EnsureIdempotent ==
    /\ ensure_it_tickets_table(ensure_it_tickets_table(tickets))
           = ensure_it_tickets_table(tickets)
    /\ SecurityIncident_ensure_table(SecurityIncident_ensure_table(incidents))
           = SecurityIncident_ensure_table(incidents)
    /\ DatasetMetadata_ensure_table(DatasetMetadata_ensure_table(datasets))
           = DatasetMetadata_ensure_table(datasets)
    /\ ret.op \in TicketStoreOps => ensure_it_tickets_table(tickets) = tickets
    /\ ret.op \in IncidentStoreOps => SecurityIncident_ensure_table(incidents) = incidents
    /\ ret.op \in DatasetStoreOps => DatasetMetadata_ensure_table(datasets) = datasets

\* a ticket table in the legacy shape that holds rows the reconciliation
\* still has to backfill
C10_Witness ==
    /\ tickets.exists /\ tickets.rows # {}
    /\ "title" \notin tickets.cols
    /\ \E r \in ensure_it_tickets_table(tickets).rows : r["title"] = "Printer down"

\* what the reconciliation must leave of row r of table t in column new,
\* whose legacy column is old
Backfilled(t, r, new, old) ==
    LET was == IF new \in t.cols THEN r[new] ELSE NULL IN
    IF ~Truthy(was) /\ old \in t.cols /\ r[old] # NULL THEN r[old] ELSE was

\* C11: on a ticket table in the legacy shape (and on any other ticket
\* table) the schema reconciliation that opens every ticket store access
\* leaves the columns title and created_date in place, keeps every row and
\* every value of the columns the table already had apart from these two,
\* sets title = description and created_date = created_at exactly on the rows
\* whose new column is null or empty and whose legacy column is non-null, and
\* every ticket store access leaves a table that has both columns.
C11_LegacyBackfill ==
    LET e == ensure_it_tickets_table(tickets) IN
    /\ tickets.exists =>
         /\ e.cols = tickets.cols \cup {"title", "created_date"}
         /\ Ids(e) = Ids(tickets) /\ Count(e) = Count(tickets)
         /\ \A r \in tickets.rows :
              LET m == RowOf(e, r["id"]) IN
              /\ \A c \in tickets.cols \ {"title", "created_date"} : m[c] = r[c]
              /\ m["title"] = Backfilled(tickets, r, "title", "description")
              /\ m["created_date"] = Backfilled(tickets, r, "created_date", "created_at")
    /\ ret.op \in TicketStoreOps => {"title", "created_date"} \subseteq tickets.cols

\* a ticket store read has just reconciled a legacy table: one row has its
\* title and created_date backfilled, another has no legacy value to take
C11_Witness ==
    /\ ret.op = "ITTicket.get_by_id"
    /\ "description" \in tickets.cols
    /\ \E r \in tickets.rows :
         /\ r["description"] = "Printer down" /\ r["title"] = "Printer down"
         /\ r["created_at"] = "2024-01-05" /\ r["created_date"] = "2024-01-05"
    /\ \E r \in tickets.rows : r["description"] = NULL /\ r["title"] = NULL

\* C12: in the ticket, incident and dataset stores, update and delete called
\* with an id that is not in the table return normally and leave every row
\* as it was (for a ticket table: as the schema reconciliation that opens the
\* call leaves it).
C12_AbsentIdIsNoOp ==
    [][/\ (ITTicket_update /\ ~ret'.hit)
             => (ret'.exc = OK /\ tickets'.rows = ensure_it_tickets_table(tickets).rows)
       /\ (SecurityIncidentUpdateStep /\ ~ret'.hit)
             => (ret'.exc = OK /\ incidents'.rows = incidents.rows)
       /\ (DatasetMetadataUpdateStep /\ ~ret'.hit)
             => (ret'.exc = OK /\ datasets'.rows = datasets.rows)
       /\ \A id \in AnyId :
            /\ (ITTicket_delete(id) /\ id \notin Ids(tickets))
                  => (ret'.exc = OK
                      /\ tickets'.rows = ensure_it_tickets_table(tickets).rows)
            /\ (SecurityIncident_delete(id) /\ id \notin Ids(incidents))
                  => (ret'.exc = OK /\ incidents'.rows = incidents.rows)
            /\ (DatasetMetadata_delete(id) /\ id \notin Ids(datasets))
                  => (ret'.exc = OK /\ datasets'.rows = datasets.rows)]_vars

\* C13: for every stored ticket, get(id).created_date and get(id).title are
\* the same before and after an update, a read, a schema reconciliation and
\* the passing of time between two reads.
C13_CreatedDateImmutable ==
    [][(ITTicket_update \/ ITTicket_get \/ EnsureTickets \/ Tick)
          => \A id \in Ids(tickets) :
                LET before == ITTicket_get_by_id(tickets, id, now).e
                    after == ITTicket_get_by_id(tickets', id, now').e
                IN /\ after.created_date = before.created_date
                   /\ after.title = before.title]_vars

\* row holds, column by column, the fields of entity
RowCarries(row, entity) == \A f \in DOMAIN entity : row[f] = entity[f]

\* no two rows of table t share an id
UniqueIds(t) == \A r1, r2 \in t.rows : r1["id"] = r2["id"] => r1 = r2

\* C14: in every store a create call that returns an entity returns an id
\* that no row of the table had before the call, leaves a table in which no
\* two rows share an id, and leaves under that id a row holding the field
\* values and the timestamp of the returned entity.
C14_CreateFreshId ==
    [][/\ (ITTicket_create /\ ret'.exc = OK)
             => /\ ret'.val.id \notin Ids(tickets)
                /\ UniqueIds(tickets')
                /\ RowCarries(RowOf(tickets', ret'.val.id), ret'.val)
       /\ (SecurityIncident_create /\ ret'.exc = OK)
             => /\ ret'.val.e.id \notin Ids(incidents)
                /\ UniqueIds(incidents')
                /\ RowCarries(RowOf(incidents', ret'.val.e.id), ret'.val.e)
       /\ (DatasetMetadata_create /\ ret'.exc = OK)
             => /\ ret'.val.e.id \notin Ids(datasets)
                /\ UniqueIds(datasets')
                /\ RowCarries(RowOf(datasets', ret'.val.e.id), ret'.val.e)]_vars

\* a create that follows a create and a delete: the new incident takes id 2,
\* not the freed id 1
C14_Witness ==
    /\ ret.op = "SecurityIncident.create" /\ ret.exc = OK
    /\ ret.val.e.id = 2
    /\ Ids(incidents) = {2}

\* the clock value of a timestamp (ISO timestamps order as their times do)
StampTime(s) == IF s = Earlier THEN -1 ELSE CHOOSE n \in 0..MaxClock : Stamp(n) = s

\* C15: for a dataset that create has just returned, update(id, ...,
\* status="Archived") followed by get(id) shows status "Archived" and a
\* last_updated strictly later than the last_updated create returned.
C15_UpdateStampsLater ==
    [][\A id \in AnyId, in \in DatasetUpdates :
          (/\ ret.op = "DatasetMetadata.create" /\ ret.exc = OK
           /\ ret.val.e.id = id
           /\ in.status = "Archived"
           /\ DatasetMetadata_update(id, in) /\ ret'.exc = OK)
              => LET got == DatasetMetadata_get_by_id(datasets', id) IN
                 /\ got.found
                 /\ got.e.status = "Archived"
                 /\ StampTime(got.e.last_updated)
                        > StampTime(ret.val.e.last_updated)]_vars

\* list holds one entity for every row of table t, each row once, in
\* strictly descending order of id
ListsEveryRowDescending(list, t) ==
    /\ Len(list) = Count(t)
    /\ {list[i].id : i \in 1..Len(list)} = Ids(t)
    /\ \A i, j \in 1..Len(list) : i < j => list[i].id > list[j].id

\* C16: the list that get_all of the incident store and of the dataset store
\* returns holds every stored row exactly once, in strictly descending order
\* of id.
C16_ListAllDescending ==
    /\ ret.op = "SecurityIncident.get_all"
          => /\ ListsEveryRowDescending(ret.val, incidents)
             /\ \A i \in 1..Len(ret.val) :
                  Found(ret.val[i]) = SecurityIncident_get_by_id(incidents, ret.val[i].id)
    /\ ret.op = "DatasetMetadata.get_all"
          => /\ ListsEveryRowDescending(ret.val, datasets)
             /\ \A i \in 1..Len(ret.val) :
                  Found(ret.val[i]) = DatasetMetadata_get_by_id(datasets, ret.val[i].id)

\* get_all has just listed two datasets, the younger one first
C16_Witness ==
    /\ ret.op = "DatasetMetadata.get_all"
    /\ Len(ret.val) = 2
    /\ ret.val[1].id = 2 /\ ret.val[2].id = 1

\* the entity field f mapped from row carries default whenever the row's
\* column f is NULL or missing, and is never null
Defaulted(row, entity, f, default) ==
    /\ entity[f] # NULL
    /\ Get(row, f, NULL) = NULL => entity[f] = default

\* C17: in every store the row-to-entity mapping of a stored row yields no
\* null in a defaulted field, and yields the documented default where the
\* row's column is NULL or missing: ticket priority and status "Unknown",
\* incident type "Other", severity "Low" and status "Open", dataset status
\* "Active", sensitivity "Low", source and owner "Unknown".
C17_RowMappingDefaults ==
    /\ \A r \in tickets.rows :
         LET e == ITTicket_from_row(r, now) IN
         /\ Defaulted(r, e, "priority", "Unknown")
         /\ Defaulted(r, e, "status", "Unknown")
         /\ e.title # NULL /\ e.created_date # NULL
    /\ \A r \in incidents.rows :
         LET e == SecurityIncident_from_row(r) IN
         /\ Defaulted(r, e, "incident_type", "Other")
         /\ Defaulted(r, e, "severity", "Low")
         /\ Defaulted(r, e, "status", "Open")
    /\ \A r \in datasets.rows :
         LET e == DatasetMetadata_from_row(r) IN
         /\ Defaulted(r, e, "dataset_name", "Unnamed Dataset")
         /\ Defaulted(r, e, "source", "Unknown")
         /\ Defaulted(r, e, "owner", "Unknown")
         /\ Defaulted(r, e, "sensitivity", "Low")
         /\ Defaulted(r, e, "status", "Active")

\* a numeric argument that is no number: a non-numeric text or None
Malformed(a) == a.t = "none" \/ (a.t = "str" /\ a.s \notin NumericTexts)

\* the arguments in with 0 in place of every malformed numeric argument
Zeroed(in) ==
    [in EXCEPT !.rows = IF Malformed(@) THEN IntArg(0) ELSE @,
               !.size_mb = IF Malformed(@) THEN IntArg(0) ELSE @]

\* C18: a malformed rows or size_mb never makes a dataset operation fail:
\* the safe casts map it to 0, create and update do with it exactly what
\* they do with 0, and the dataset CSV loader, called on an empty table with
\* a file whose row has a malformed number, returns normally having stored 0
\* in that field.
C18_MalformedNumbersBecomeZero ==
    /\ SafeNumber(TextArg("abc")) = 0 /\ SafeNumber(NoneArg) = 0
    /\ \A in \in DatasetInputs :
         /\ DatasetMetadata_create_call(datasets, in, now)
                = DatasetMetadata_create_call(datasets, Zeroed(in), now)
         /\ \A id \in AnyId :
              DatasetMetadata_update_call(datasets, id, in, now)
                  = DatasetMetadata_update_call(datasets, id, Zeroed(in), now)
    /\ \A csv \in CsvDatasetFiles :
         (/\ csv.exists
          /\ \E i \in 1..Len(csv.rows) : Malformed(csv.rows[i].rows)
          /\ Count(datasets) = 0
          /\ ~datasets.exists \/ datasets.cols = DatasetCols)
             => LET res == load_datasets_metadata_from_csv_call(datasets, csv, now) IN
                /\ res.exc = OK
                /\ res.val = Len(csv.rows)
                /\ \A r \in res.t.rows : r["rows"] = 0

\* C19: every stored dataset has rows >= 0 and size_mb >= 0.
C19_NonNegativeSizes ==
    \A r \in datasets.rows : r["rows"] >= 0 /\ r["size_mb"] >= 0

\* the rows of table t other than the row of id
OtherRows(t, id) == {r \in t.rows : r["id"] # id}

\* C20 (as the code has it): delete(id) removes exactly the row of that id
\* and leaves no trace of it: the rows the table holds afterwards are the
\* other rows as the schema reconciliation that opens the call leaves them
\* (which for the incident and dataset stores is as they were), and the
\* other three tables are unchanged.
C20_DeleteRemovesOnlyThatRow ==
    [][\A id \in AnyId :
          /\ ITTicket_delete(id)
                => /\ tickets'.rows = OtherRows(ensure_it_tickets_table(tickets), id)
                   /\ <<users, incidents, datasets>>' = <<users, incidents, datasets>>
          /\ SecurityIncident_delete(id)
                => /\ incidents'.rows = OtherRows(incidents, id)
                   /\ <<users, tickets, datasets>>' = <<users, tickets, datasets>>
          /\ DatasetMetadata_delete(id)
                => /\ datasets'.rows = OtherRows(datasets, id)
                   /\ <<users, tickets, incidents>>' = <<users, tickets, incidents>>]_vars

\* C20 as stated: after delete(id) every other row of the same table is as
\* it was before the call.
C20_OtherRowsUntouched ==
    [][\A id \in AnyId :
          /\ ITTicket_delete(id) => tickets'.rows = OtherRows(tickets, id)
          /\ SecurityIncident_delete(id) => incidents'.rows = OtherRows(incidents, id)
          /\ DatasetMetadata_delete(id) => datasets'.rows = OtherRows(datasets, id)]_vars

\* an incident has just been deleted while the credential, ticket and
\* dataset tables each hold a row
C20_Witness ==
    /\ ret.op = "SecurityIncident.delete" /\ ret.hit
    /\ incidents.rows = {}
    /\ users.rows # {} /\ tickets.rows # {} /\ datasets.rows # {}

\* C21: the password_hash stored for a credential is never the plaintext
\* password that was passed to register for it.
C21_HashNeverPlaintext ==
    \A p \in plain : \A r \in UserRows(p[1]) : r["password_hash"] # p[2]

\* a credential is stored, and one registered with a password longer than
\* bcrypt reads is among them
C21_Witness ==
    \E p \in plain : Len(p[2]) > BcryptMaxBytes /\ UserRows(p[1]) # {}

\* a call of one of the five CSV loaders
LoaderCall ==
    \/ load_cyber_incidents
    \/ load_datasets_metadata
    \/ load_it_tickets
    \/ load_cyber_incidents_from_csv
    \/ load_datasets_metadata_from_csv

\* C22: a CSV loader whose import file does not exist returns normally and
\* leaves its table unchanged, the unguarded and the guarded loaders alike.
C22_MissingFileIsWarning ==
    [][(LoaderCall /\ ~ret'.file.exists)
          => /\ ret'.exc = OK
             /\ <<tickets, incidents, datasets>>' = <<tickets, incidents, datasets>>]_vars

\* C23: no connection opened by a completed credential-store or
\* record-store operation is still open.
C23_NoConnectionLeftOpen == open = {}

\* the table holds n rows, and they carry the values of the first n of params
HoldsFirst(t, params, n) ==
    /\ Count(t) = n
    /\ \A i \in 1..n :
         \E r \in t.rows : \A c \in DOMAIN params[i] : r[c] = params[i][c]

\* the rows of the CSV file of the last loader call
FileRows == ret.file.rows

C25_ResolvedAgainKeepsTimestamp ==
    [][\A id \in AnyId, in \in IncidentUpdates, status \in IncidentStatuses :
          (SecurityIncident_update(id, in, status) /\ ret'.exc = OK /\ id \in Ids(incidents))
             => LET old == RowOf(incidents, id)
                    new == RowOf(incidents', id)
                IN /\ (old["status"] = "Resolved" /\ status = "Resolved")
                         => new["resolved_at"] = old["resolved_at"]
                   /\ (new["resolved_at"] # NULL /\ new["resolved_at"] # old["resolved_at"])
                         => (old["status"] # "Resolved" /\ status = "Resolved"
                             /\ new["resolved_at"] = Stamp(now))]_vars

\* the only incident was resolved at time 0 and an update at time 1 has just
\* written "Resolved" to it again
C25_Witness ==
    /\ ret.op = "SecurityIncident.update" /\ ret.exc = OK /\ ret.hit
    /\ ret.at = 1
    /\ Count(incidents) = 1
    /\ \A r \in incidents.rows : r["status"] = "Resolved" /\ r["resolved_at"] = Stamp(0)

\* C26: whatever the interleaving of the reads and UPDATE statements of
\* concurrent update calls and of delete calls on one incident, a stored row
\* has resolved_at non-null exactly when its status is "Resolved".
C26_RacingUpdatesKeepResolvedAt ==
    \A id \in Ids(incidents) :
        LET r == RowOf(incidents, id)
        IN IF r["status"] = "Resolved" THEN r["resolved_at"] # NULL
           ELSE r["resolved_at"] = NULL

\* an update has just written a row whose resolved_at another session had
\* changed since this update read it, while the other session is itself
\* between its read and its UPDATE
C26_Witness ==
    /\ ret.op = "SecurityIncident.update" /\ "stale" \in DOMAIN ret
    /\ ret.stale /\ ret.hit
    /\ \E s \in Sessions : procs[s].pc = "update"

\* C27: two calls of a guarded loader for the same file, the first of them
\* started on an empty table, leave as many rows as the file has: the rows
\* are imported, and imported once. (A call of these loaders raises before
\* its first statement on the database, so the calls of two sessions have no
\* steps to interleave: they are two calls in a row.)
C27_TwoLoadsImportOnce ==
    [][/\ (ret.op = "load_cyber_incidents_from_csv" /\ ret.empty /\ ret.file.exists
           /\ load_cyber_incidents_from_csv /\ ret'.file = ret.file)
             => Count(incidents') = Len(ret.file.rows)
       /\ (ret.op = "load_datasets_metadata_from_csv" /\ ret.empty /\ ret.file.exists
           /\ load_datasets_metadata_from_csv /\ ret'.file = ret.file)
             => Count(datasets') = Len(ret.file.rows)]_vars

\* the submissions of the two sessions are over
BothSubmitted == \A s \in Sessions : procs[s].pc = "done"

\* the sessions whose submitted password verify_user accepts
Accepted == {s \in Sessions : verify_user(procs[s].username, procs[s].pw) = "True"}

\* C28: two sessions submit the registration form for one username with two
\* passwords; under every interleaving of their user_exists and register_user
\* calls at most one credential row is stored for the username, and once both
\* submissions are over exactly one of the two passwords verifies.
C28_ConcurrentRegisterOneWinner ==
    /\ \A u \in Usernames : Cardinality(UserRows(u)) <= 1
    /\ (BothSubmitted /\ procs["s1"].pw # procs["s2"].pw)
          => Cardinality(Accepted) = 1

\* both sessions passed user_exists before either called register_user, and
\* the second register_user was refused by the UNIQUE constraint
C28_Witness ==
    /\ BothSubmitted
    /\ ret.op = "RegisterForm" /\ ret.exc = "IntegrityError"
    /\ Cardinality(UserRows("alice")) = 1

\* logged_in is true only when verify_user accepted the session's username
\* since the last logout
LoggedInWasVerified ==
    session.logged_in = "True" => session.verified = session.username

\* a page touches the store only in a session that is logged in
StoreOnlyWhenLoggedIn ==
    \A page \in Pages :
        (OpenPage(page) /\ (ret'.exc = OK
                            \/ <<tickets, incidents, datasets>>' # <<tickets, incidents, datasets>>))
            => session.logged_in = "True"

\* C29: in a web session logged_in is true only if verify_user succeeded for
\* the session's username since the last logout, a session with logged_in
\* false has the empty string as username, and the pages read and write the
\* store only when logged_in is true.
C29_SessionGuards ==
    /\ [](LoggedInWasVerified
          /\ (session.logged_in = "False" => session.username = ""))
    /\ [][StoreOnlyWhenLoggedIn]_vars

\* a logged-in session has just opened the cybersecurity page, which created
\* its table
C29_Witness ==
    /\ session.logged_in = "True" /\ session.username = "alice"
    /\ ret.op = CybersecurityPage /\ ret.exc = OK
    /\ incidents.exists

\* the ids the table has handed out so far
Assigned(t) == 1..t.seq

\* a step never hands out an id again: the ids handed out so far stay handed
\* out, and one of them that is absent from the table stays absent
NeverReassigned(t, tnext) ==
    /\ Assigned(t) \subseteq Assigned(tnext)
    /\ \A id \in Assigned(t) : id \notin Ids(t) => id \notin Ids(tnext)

\* C30: no table assigns an id twice: every stored id is among the ids handed
\* out, a create returns an id never handed out before, and through every
\* create, update, delete and import an id that was handed out and is gone
\* (deleted) stays absent.
C30_IdsNeverReused ==
    /\ [](/\ Ids(tickets) \subseteq Assigned(tickets)
          /\ Ids(incidents) \subseteq Assigned(incidents)
          /\ Ids(datasets) \subseteq Assigned(datasets))
    /\ [][/\ NeverReassigned(tickets, tickets')
          /\ NeverReassigned(incidents, incidents')
          /\ NeverReassigned(datasets, datasets')
          /\ (ITTicket_create /\ ret'.exc = OK)
                => ret'.val.id \notin Assigned(tickets)
          /\ (SecurityIncident_create /\ ret'.exc = OK)
                => ret'.val.e.id \notin Assigned(incidents)
          /\ (DatasetMetadata_create /\ ret'.exc = OK)
                => ret'.val.e.id \notin Assigned(datasets)]_vars

\* a dataset was created after the dataset with id 1 had been deleted: it has
\* id 2 and id 1 is absent
C30_Witness ==
    /\ ret.op = "DatasetMetadata.create" /\ ret.exc = OK
    /\ datasets.seq = 2
    /\ Ids(datasets) = {2}

====
